---------------------------- MODULE Spec2Model ----------------------------
(***************************************************************************)
(* Model of the claim-extraction RAG pipeline:                            *)
(*   ingestion  (src/src/ingestion/ingest.py)  ClaimIngestor              *)
(*   retrieval  (src/src/engine/retriever.py)  ClaimRetriever             *)
(*   generation (src/src/engine/generator.py)  ClaimGenerator             *)
(*   service    (src/src/server/api.py)        handle_question, status    *)
(*                                                                         *)
(* Four specifications share the module's variables:                      *)
(*   SpecNormalize  _clean_tweet_content applied once and twice           *)
(*   SpecLoad       load_source_data over the states of the data dir      *)
(*   SpecChunk      the splitter call of build_vector_index               *)
(*   Spec           ingestion runs interleaved with query-time operations *)
(***************************************************************************)
EXTENDS Integers, Sequences, FiniteSets, TLC

VARIABLES
    nInput,     \* argument of _clean_tweet_content: [isStr, s]
    nOut1,      \* _clean_tweet_content(nInput)
    nOut2,      \* _clean_tweet_content(nOut1)
    nPc,        \* "start" | "once" | "twice"
    files,      \* the data directory: target file name -> state of the file
    loadOut,    \* what load_source_data did: [raised, dataframes]
    lPc,        \* "start" | "done"
    cDocs,      \* the documents handed to the splitter
    cChunks,    \* splitter.split_documents(cDocs)
    cPc,        \* "start" | "done"
    index,      \* the persisted Chroma collection, in insertion order
    ingested,   \* the dataframes build_vector_index was run on, in order
    op,         \* the operation that ran last; of that operation:
    searchOut,  \*   what its ClaimRetriever.search call did
    genOut,     \*   what its generate_answer call did
    errorLog,   \*   the exception it logged, "none" if none
    response    \*   the HTTP response it sent

nvars == <<nInput, nOut1, nOut2, nPc>>

lvars == <<files, loadOut, lPc>>

cvars == <<cDocs, cChunks, cPc>>

svars == <<index, ingested, op, searchOut, genOut, errorLog, response>>

vars == <<nInput, nOut1, nOut2, nPc, files, loadOut, lPc, cDocs, cChunks, cPc,
          index, ingested, op, searchOut, genOut, errorLog, response>>

\* a value that is no str (NaN of an empty cell, None, a number)
NonString == [isStr |-> FALSE, s |-> <<>>]

NoLoad == [raised |-> "none", dataframes |-> <<>>]

NoSearch == [k |-> 0, use_mmr |-> FALSE, raised |-> "none", queried |-> FALSE,
             result |-> <<>>]

NoGeneration == [called |-> FALSE, context |-> <<>>, raised |-> "none"]

NoResponse == [status |-> 0, answer |-> "", sources |-> <<>>, detail |-> ""]

\* the variables of the normalizer, unused
IdleNormalize ==
    /\ nInput = NonString
    /\ nOut1 = <<>>
    /\ nOut2 = <<>>
    /\ nPc = "idle"

\* the variables of the loader, unused
IdleLoad ==
    /\ files = <<>>
    /\ loadOut = NoLoad
    /\ lPc = "idle"

\* the variables of the splitter, unused
IdleChunk ==
    /\ cDocs = <<>>
    /\ cChunks = <<>>
    /\ cPc = "idle"

\* the variables of the index and the service, unused
IdleService ==
    /\ index = <<>>
    /\ ingested = <<>>
    /\ op = "none"
    /\ searchOut = NoSearch
    /\ genOut = NoGeneration
    /\ errorLog = "none"
    /\ response = NoResponse

(***************************************************************************)
(* Text normalizer: ClaimIngestor._clean_tweet_content                    *)
(* A text is a sequence of one-character strings.                         *)
(***************************************************************************)

\* Longest input, counted in fragments
MaxFrags == 5

\* Inputs are concatenations of these fragments; every character the three
\* regular expressions distinguish occurs in one of them.
Fragments ==
    { <<"h","t","t","p">>, <<"w","w","w">>, <<"h","t">>, <<"t","p">>,
      <<"s">>, <<"x">>, <<"<">>, <<">">>, <<" ">>, <<"\n">>, <<"\t">> }

\* \s of Python's re, restricted to the characters of the model
IsSpace(c) == c \in {" ", "\n", "\t"}

RECURSIVE Concat(_)
Concat(fs) == IF fs = <<>> THEN <<>> ELSE Head(fs) \o Concat(Tail(fs))

\* s[i..] starts with the literal lit
HasPrefixAt(s, i, lit) ==
    /\ i + Len(lit) - 1 <= Len(s)
    /\ \A j \in 1..Len(lit) : s[i + j - 1] = lit[j]

\* length of the maximal run of \S starting at position i (greedy \S+)
RECURSIVE NonSpaceRun(_, _)
NonSpaceRun(s, i) ==
    IF i > Len(s) \/ IsSpace(s[i]) THEN 0 ELSE 1 + NonSpaceRun(s, i + 1)

\* one alternative  lit\S+  tried at position i: length of the match, 0 if none
AltMatchLen(s, i, lit) ==
    IF HasPrefixAt(s, i, lit) /\ NonSpaceRun(s, i + Len(lit)) >= 1
    THEN Len(lit) + NonSpaceRun(s, i + Len(lit))
    ELSE 0

\* r"http\S+|www\S+|https\S+" tried at position i, alternatives in order
UrlMatchLen(s, i) ==
    IF AltMatchLen(s, i, <<"h","t","t","p">>) > 0
    THEN AltMatchLen(s, i, <<"h","t","t","p">>)
    ELSE IF AltMatchLen(s, i, <<"w","w","w">>) > 0
    THEN AltMatchLen(s, i, <<"w","w","w">>)
    ELSE AltMatchLen(s, i, <<"h","t","t","p","s">>)

\* re.sub(r"http\S+|www\S+|https\S+", "", text): leftmost non-overlapping matches
RECURSIVE RemoveUrlsFrom(_, _)
RemoveUrlsFrom(s, i) ==
    IF i > Len(s) THEN <<>>
    ELSE IF UrlMatchLen(s, i) > 0 THEN RemoveUrlsFrom(s, i + UrlMatchLen(s, i))
    ELSE <<s[i]>> \o RemoveUrlsFrom(s, i + 1)

RemoveUrls(s) == RemoveUrlsFrom(s, 1)

\* r"<.*?>" tried at position i: "<", the fewest characters other than a
\* newline, ">".  Position of the closing ">", 0 if there is no match.
RECURSIVE TagCloseFrom(_, _)
TagCloseFrom(s, j) ==
    IF j > Len(s) \/ s[j] = "\n" THEN 0
    ELSE IF s[j] = ">" THEN j
    ELSE TagCloseFrom(s, j + 1)

TagEnd(s, i) == IF s[i] = "<" THEN TagCloseFrom(s, i + 1) ELSE 0

\* re.sub(r"<.*?>", "", text)
RECURSIVE RemoveTagsFrom(_, _)
RemoveTagsFrom(s, i) ==
    IF i > Len(s) THEN <<>>
    ELSE IF TagEnd(s, i) > 0 THEN RemoveTagsFrom(s, TagEnd(s, i) + 1)
    ELSE <<s[i]>> \o RemoveTagsFrom(s, i + 1)

RemoveTags(s) == RemoveTagsFrom(s, 1)

\* re.sub(r"\s+", " ", text): every maximal run of whitespace becomes one space
RECURSIVE CollapseFrom(_, _)
CollapseFrom(s, i) ==
    IF i > Len(s) THEN <<>>
    ELSE IF IsSpace(s[i])
    THEN IF i > 1 /\ IsSpace(s[i - 1])
         THEN CollapseFrom(s, i + 1)
         ELSE <<" ">> \o CollapseFrom(s, i + 1)
    ELSE <<s[i]>> \o CollapseFrom(s, i + 1)

CollapseSpaces(s) == CollapseFrom(s, 1)

\* str.strip()
RECURSIVE LStrip(_)
LStrip(s) == IF s # <<>> /\ IsSpace(Head(s)) THEN LStrip(Tail(s)) ELSE s

RECURSIVE RStrip(_)
RStrip(s) ==
    IF s # <<>> /\ IsSpace(s[Len(s)]) THEN RStrip(SubSeq(s, 1, Len(s) - 1)) ELSE s

Strip(s) == RStrip(LStrip(s))

\* the URL step of _clean_tweet_content as the code has it (ingest.py line 55)
StripLinks(s) == RemoveUrls(s)

\* the tag step as the code has it (line 56)
StripTags(s) == RemoveTags(s)

\* the spacing step as the code has it (line 57)
NormalizeSpacing(s) == Strip(CollapseSpaces(s))

\* _clean_tweet_content(text)
clean_tweet_content(x) ==
    IF ~x.isStr THEN <<>>
    ELSE NormalizeSpacing(StripTags(StripLinks(x.s)))

Str(s) == [isStr |-> TRUE, s |-> s]

\* the texts of at most n fragments, and a non-string
NormalizeInputs(n) ==
    { Str(Concat(fs)) : fs \in UNION { [1..m -> Fragments] : m \in 0..n } }
    \cup {NonString}

InitNormalize ==
    /\ nInput \in NormalizeInputs(MaxFrags)
    /\ nOut1 = <<>>
    /\ nOut2 = <<>>
    /\ nPc = "start"
    /\ IdleLoad
    /\ IdleChunk
    /\ IdleService

\* first application of the normalizer
CleanOnce ==
    /\ nPc = "start"
    /\ nOut1' = clean_tweet_content(nInput)
    /\ nPc' = "once"
    /\ UNCHANGED <<nInput, nOut2>>
    /\ UNCHANGED <<lvars, cvars, svars>>

\* the normalizer applied to its own output
CleanTwice ==
    /\ nPc = "once"
    /\ nOut2' = clean_tweet_content(Str(nOut1))
    /\ nPc' = "twice"
    /\ UNCHANGED <<nInput, nOut1>>
    /\ UNCHANGED <<lvars, cvars, svars>>

NextNormalize == CleanOnce \/ CleanTwice

SpecNormalize == InitNormalize /\ [][NextNormalize]_vars

\* some position of s starts a match of the URL expression
HasUrlToken(s) == \E i \in 1..Len(s) : UrlMatchLen(s, i) > 0

\* some position of s starts a match of the tag expression
HasTag(s) == \E i \in 1..Len(s) : TagEnd(s, i) > 0

HasDoubledSpace(s) == \E i \in 1..(Len(s) - 1) : IsSpace(s[i]) /\ IsSpace(s[i + 1])

HasOuterSpace(s) == s # <<>> /\ (IsSpace(s[1]) \/ IsSpace(s[Len(s)]))

\* C1: the normalizer is idempotent: applying it to its own output changes
\* nothing, for string and non-string inputs alike.
C1_Idempotent == nPc = "twice" => nOut2 = nOut1

\* C2: the normalizer's output holds no http/www token, no <...> tag, no run
\* of two whitespace characters and no leading or trailing whitespace.
C2_CleanOutput ==
    nPc # "start" =>
        /\ ~HasUrlToken(nOut1)
        /\ ~HasTag(nOut1)
        /\ ~HasDoubledSpace(nOut1)
        /\ ~HasOuterSpace(nOut1)


(***************************************************************************)
(* Source loading: ClaimIngestor._validate_tsv, load_source_data          *)
(***************************************************************************)

\* most well-formed data rows in one source file
MaxRows == 2

\* target_files of load_source_data, in the order of the loop
target_files == <<"claim_dataset.tsv", "checkworthiness_dataset.tsv">>

TargetNames == { target_files[i] : i \in 1..Len(target_files) }

\* A file of the data directory:
\*   exists     the path exists
\*   utf8       its bytes decode as UTF-8
\*   malformed  it holds a row with more fields than the header
\*   rows       its well-formed data rows
FileStates ==
    [exists : BOOLEAN, utf8 : BOOLEAN, malformed : BOOLEAN, rows : 0..MaxRows]

\* the suffix of a target file name; both names of target_files end in .tsv
Suffix(name) == ".tsv"

\* _validate_tsv(file_path)
validate_tsv(name, f) ==
    IF ~f.exists THEN FALSE
    ELSE IF Suffix(name) # ".tsv" THEN FALSE
    ELSE TRUE

\* pd.read_csv(file_path, sep="\t", encoding=..., on_bad_lines=...):
\* strict decoding raises UnicodeDecodeError on bytes that do not decode;
\* a row with too many fields raises ParserError under on_bad_lines="error"
\* (pandas' default) and is skipped with a warning under "warn".
read_csv(f, encoding, on_bad_lines) ==
    IF encoding = "utf-8" /\ ~f.utf8
    THEN [raised |-> "UnicodeDecodeError", rows |-> 0]
    ELSE IF f.malformed /\ on_bad_lines = "error"
    THEN [raised |-> "ParserError", rows |-> 0]
    ELSE [raised |-> "none", rows |-> f.rows]

\* the fallback read of line 81 (no on_bad_lines argument: pandas' default)
read_csv_fallback(f) == read_csv(f, "latin-1", "error")

\* lines 75-81: the try / except UnicodeDecodeError of load_source_data
read_with_fallback(f) ==
    IF read_csv(f, "utf-8", "warn").raised = "UnicodeDecodeError"
    THEN read_csv_fallback(f)
    ELSE read_csv(f, "utf-8", "warn")

\* the loop of load_source_data from the i-th target file on, with the
\* dataframes collected so far; an exception leaves the function at once
RECURSIVE LoadFrom(_, _, _)
LoadFrom(fs, i, dataframes) ==
    IF i > Len(target_files) THEN [raised |-> "none", dataframes |-> dataframes]
    ELSE LET name == target_files[i]
             df == read_with_fallback(fs[name])
         IN  IF ~validate_tsv(name, fs[name]) THEN LoadFrom(fs, i + 1, dataframes)
             ELSE IF df.raised # "none"
             THEN [raised |-> df.raised, dataframes |-> <<>>]
             ELSE IF df.rows > 0      \* not df.empty
             THEN LoadFrom(fs, i + 1,
                      Append(dataframes,
                             [source_filename |-> name, rows |-> df.rows]))
             ELSE LoadFrom(fs, i + 1, dataframes)

load_source_data(fs) == LoadFrom(fs, 1, <<>>)

InitLoad ==
    /\ files \in [TargetNames -> FileStates]
    /\ loadOut = NoLoad
    /\ lPc = "start"
    /\ IdleNormalize
    /\ IdleChunk
    /\ IdleService

\* one call of load_source_data
LoadSourceData ==
    /\ lPc = "start"
    /\ loadOut' = load_source_data(files)
    /\ lPc' = "done"
    /\ UNCHANGED files
    /\ UNCHANGED <<nvars, cvars, svars>>

NextLoad == LoadSourceData

SpecLoad == InitLoad /\ [][NextLoad]_vars

\* the file is one load_source_data has rows to take from
Loadable(f) == f.exists /\ f.rows > 0

Loaded(name) ==
    \E i \in 1..Len(loadOut.dataframes) :
        loadOut.dataframes[i].source_filename = name

\* C5: load_source_data absorbs every Source-Data error (missing file,
\* undecodable bytes, malformed rows on either decoding path): it never
\* raises, and each target file that exists and has rows is loaded whatever
\* the state of the other one.
C5_AbsorbsSourceErrors ==
    lPc = "done" =>
        /\ loadOut.raised = "none"
        /\ \A name \in TargetNames : Loadable(files[name]) => Loaded(name)

(***************************************************************************)
(* Chunking: the RecursiveCharacterTextSplitter that build_vector_index   *)
(* constructs and applies (ingest.py lines 110-118).                      *)
(*                                                                         *)
(* A text that went through the normalizer is words joined by single      *)
(* spaces; it is modelled by the sequence of its word lengths, and a      *)
(* piece of it by its offset and length.  The splitter runs with its      *)
(* defaults: separators "\n\n", "\n", " ", "" tried in that order, the     *)
(* separator kept at the start of the following split, chunks stripped.   *)
(***************************************************************************)

\* chunk_size=512 of the splitter call
chunk_size == 512

\* chunk_overlap=50 of the splitter call
chunk_overlap == 50

\* the splitter built without its size arguments: the library's defaults
make_splitter_defaults == [chunk_size |-> 4000, chunk_overlap |-> 200]

\* RecursiveCharacterTextSplitter(chunk_size=512, chunk_overlap=50, add_start_index=True)
make_splitter == [chunk_size |-> chunk_size, chunk_overlap |-> chunk_overlap]

RECURSIVE SumLens(_)
SumLens(ws) == IF ws = <<>> THEN 0 ELSE Head(ws) + SumLens(Tail(ws))

\* len(text) of the text with word lengths ws
TextLen(ws) == IF ws = <<>> THEN 0 ELSE SumLens(ws) + Len(ws) - 1

\* offset of the i-th word in the text
WordOffset(ws, i) == IF i = 1 THEN 0 ELSE TextLen(SubSeq(ws, 1, i - 1)) + 1

\* _split_text_with_regex(text, " ", keep_separator=True): the first word, then
\* each later word with the space before it.  sp: the piece starts with a space.
WordPieces(ws) ==
    [i \in 1..Len(ws) |->
        IF i = 1 THEN [off |-> 0, len |-> ws[1], sp |-> FALSE]
        ELSE [off |-> WordOffset(ws, i) - 1, len |-> ws[i] + 1, sp |-> TRUE]]

\* list(text) of a piece: its characters, the splits under the separator ""
CharPieces(p) ==
    [j \in 1..p.len |-> [off |-> p.off + j - 1, len |-> 1, sp |-> (j = 1 /\ p.sp)]]

\* _join_docs of the splits P[lo..hi] under the separator "": the joined text,
\* stripped; no chunk when nothing is left
JoinDocs(P, lo, hi) ==
    LET start == P[lo].off + (IF P[lo].sp THEN 1 ELSE 0)
        end   == P[hi].off + P[hi].len
    IN  IF lo > hi \/ end - start <= 0 THEN <<>>
        ELSE << [start |-> start, len |-> end - start] >>

\* one test of the inner while loop of _merge_splits, with current_doc =
\* P[w.lo..i-1] holding w.total characters: drop the front split while more
\* than chunk_overlap characters are held, or while the next split P[i] does
\* not fit and something is left
PopStep(sp, P, i, w) ==
    IF w.total > sp.chunk_overlap
       \/ (w.total + P[i].len > sp.chunk_size /\ w.total > 0)
    THEN [lo |-> w.lo + 1, total |-> w.total - P[w.lo].len]
    ELSE w

\* n tests of the while loop (by halves, to keep the evaluation shallow)
RECURSIVE PopIter(_, _, _, _, _)
PopIter(sp, P, i, w, n) ==
    IF n = 0 THEN w
    ELSE IF n = 1 THEN PopStep(sp, P, i, w)
    ELSE LET half == PopIter(sp, P, i, w, n \div 2)
         IN  IF half.lo >= i THEN half      \* current_doc is empty
             ELSE PopIter(sp, P, i, half, n - (n \div 2))

\* the while loop run to its end: it stops at the latest when current_doc is
\* empty, after as many steps as current_doc has splits
PopFront(sp, P, i, lo, total) ==
    PopIter(sp, P, i, [lo |-> lo, total |-> total], i - lo)

\* one pass of the for loop of _merge_splits, for the split P[st.i];
\* current_doc = P[st.lo..st.i-1] holds st.total characters and st.docs are
\* the chunks emitted so far
MergeStep(sp, P, st) ==
    LET d == P[st.i]
        kept == PopFront(sp, P, st.i, st.lo, st.total)
    IN  IF st.total + d.len > sp.chunk_size /\ st.i > st.lo
        THEN [i |-> st.i + 1, lo |-> kept.lo, total |-> kept.total + d.len,
              docs |-> st.docs \o JoinDocs(P, st.lo, st.i - 1)]
        ELSE [i |-> st.i + 1, lo |-> st.lo, total |-> st.total + d.len,
              docs |-> st.docs]

\* n passes of the for loop (by halves, to keep the evaluation shallow)
RECURSIVE MergeIter(_, _, _, _)
MergeIter(sp, P, st, n) ==
    IF n = 0 THEN st
    ELSE IF n = 1 THEN MergeStep(sp, P, st)
    ELSE LET half == MergeIter(sp, P, st, n \div 2)
         IN  IF half.i > Len(P) THEN half   \* no split is left
             ELSE MergeIter(sp, P, half, n - (n \div 2))

\* _merge_splits(splits, ""): the for loop over all splits, then the chunk of
\* what current_doc still holds
merge_splits(sp, P) ==
    LET st == MergeIter(sp, P, [i |-> 1, lo |-> 1, total |-> 0, docs |-> <<>>],
                        Len(P))
    IN  IF P = <<>> THEN <<>> ELSE st.docs \o JoinDocs(P, st.lo, Len(P))

\* _split_text(s, [""]): the characters of the piece, all shorter than
\* chunk_size, merged
split_chars(sp, p) == merge_splits(sp, CharPieces(p))

\* the loop of _split_text(text, [" ", ""]) from split i on; the good splits
\* collected so far are P[good..i-1]
RECURSIVE SplitWordsFrom(_, _, _, _, _)
SplitWordsFrom(sp, P, i, good, final_chunks) ==
    IF i > Len(P)
    THEN final_chunks \o merge_splits(sp, SubSeq(P, good, Len(P)))
    ELSE IF P[i].len < sp.chunk_size
    THEN SplitWordsFrom(sp, P, i + 1, good, final_chunks)
    ELSE SplitWordsFrom(sp, P, i + 1, i + 1,
             final_chunks \o merge_splits(sp, SubSeq(P, good, i - 1))
                          \o split_chars(sp, P[i]))

\* splitter.split_text(text): the first separator found in the text is " "
\* when it has two words or more and "" otherwise
split_text(sp, ws) ==
    IF ws = <<>> THEN <<>>
    ELSE IF Len(ws) = 1
    THEN split_chars(sp, [off |-> 0, len |-> ws[1], sp |-> FALSE])
    ELSE SplitWordsFrom(sp, WordPieces(ws), 1, 1, <<>>)

\* a row of the dataframe as DataFrameLoader loads it: the text (page_content)
\* and the other columns (metadata)
Doc(id, ws, label) == [tweet_id |-> id, words |-> ws, class_label |-> label]

\* create_documents for one document: each chunk carries the metadata of its
\* record and start_index, the offset text.find gives for the chunk (its own
\* offset, the chunk's text occurring nowhere earlier in the search window)
ChunksOf(sp, doc, rec) ==
    LET cs == split_text(sp, doc.words)
    IN  [i \in 1..Len(cs) |->
            [rec |-> rec, tweet_id |-> doc.tweet_id,
             class_label |-> doc.class_label,
             start_index |-> cs[i].start, len |-> cs[i].len]]

RECURSIVE SplitDocsFrom(_, _, _)
SplitDocsFrom(sp, docs, i) ==
    IF i > Len(docs) THEN <<>>
    ELSE ChunksOf(sp, docs[i], i) \o SplitDocsFrom(sp, docs, i + 1)

\* splitter.split_documents(documents)
split_documents(docs) == SplitDocsFrom(make_splitter, docs, 1)

\* most words in a text handed to the splitter
MaxWords == 3

\* word lengths: short words, a word close to chunk_size, one beyond it
WordLens == {20, 40, 480, 600}

\* the texts of at most n words
Texts(n) == UNION { [1..m -> WordLens] : m \in 0..n }

\* a second record for the dataframes of two records
SecondTexts == { <<>>, <<40, 480>>, <<600>> }

\* dataframes of one record, or of two
SplitInputs(n) ==
    { << Doc(1, t, "Yes") >> : t \in Texts(n) }
    \cup { << Doc(1, t, "Yes"), Doc(2, u, "No") >> : t \in Texts(n), u \in SecondTexts }

InitChunk ==
    /\ cDocs \in SplitInputs(MaxWords)
    /\ cChunks = <<>>
    /\ cPc = "start"
    /\ IdleNormalize
    /\ IdleLoad
    /\ IdleService

\* lines 110-118 of build_vector_index: load the documents, split them
SplitDocuments ==
    /\ cPc = "start"
    /\ cChunks' = split_documents(cDocs)
    /\ cPc' = "done"
    /\ UNCHANGED cDocs
    /\ UNCHANGED <<nvars, lvars, svars>>

NextChunk == SplitDocuments

SpecChunk == InitChunk /\ [][NextChunk]_vars

\* two chunks that follow one another and come from the same record
Consecutive(i) ==
    /\ i \in 1..(Len(cChunks) - 1)
    /\ cChunks[i].rec = cChunks[i + 1].rec

\* characters the chunk i shares with the chunk after it: where chunk i ends
\* less where the next one starts
Overlap(i) == cChunks[i].start_index + cChunks[i].len - cChunks[i + 1].start_index

\* the chunk lies inside the text of the one record it names
InsideRecord(c) ==
    /\ c.rec \in 1..Len(cDocs)
    /\ c.tweet_id = cDocs[c.rec].tweet_id
    /\ c.start_index >= 0
    /\ c.len >= 1
    /\ c.start_index + c.len <= TextLen(cDocs[c.rec].words)

\* C9 as stated: every chunk is at most 512 long and lies inside one record,
\* and two consecutive chunks of a record overlap by exactly 50 characters.
C9_ExactOverlap ==
    cPc = "done" =>
        /\ \A i \in 1..Len(cChunks) :
              cChunks[i].len <= chunk_size /\ InsideRecord(cChunks[i])
        /\ \A i \in 1..(Len(cChunks) - 1) :
              Consecutive(i) => Overlap(i) = chunk_overlap

\* C9 amended: every chunk is at most 512 long and lies inside one record,
\* and two consecutive chunks of a record overlap by at most 50 characters.
C9_BoundedOverlap ==
    cPc = "done" =>
        /\ \A i \in 1..Len(cChunks) :
              cChunks[i].len <= chunk_size /\ InsideRecord(cChunks[i])
        /\ \A i \in 1..(Len(cChunks) - 1) :
              Consecutive(i) => Overlap(i) <= chunk_overlap

\* a record was cut at a word boundary and its chunks share a whole word,
\* fewer than 50 characters
C9_Witness ==
    /\ cPc = "done"
    /\ \E i \in 1..(Len(cChunks) - 1) :
          Consecutive(i) /\ Overlap(i) > 0 /\ Overlap(i) < chunk_overlap

(***************************************************************************)
(* The vector index, ingestion into it, retrieval and the service.        *)
(*                                                                         *)
(* The embedding model is a fixed function from texts to one of eight     *)
(* unit vectors, 45 degrees apart; CosTable holds their cosines times     *)
(* 100.  A chunk's text is identified by its record and its place in it.  *)
(***************************************************************************)

\* build_vector_index runs at most this many times
MaxRuns == 3

\* fetch_k=20 of the max_marginal_relevance_search call
fetch_k == 20

\* lambda_mult=0.5 of the call, as the fraction lambda_num / lambda_den
lambda_num == 1

lambda_den == 2

\* count: Optional[int] = 3, the default of UserQuery
default_count == 3

CosTable == <<100, 71, 0, -71, -100, -71, 0, 71>>

\* cosine similarity of two embeddings, times 100
Similarity(a, b) == CosTable[((a - b) % Len(CosTable)) + 1]

\* HuggingFaceEmbeddings(model_name="all-MiniLM-L6-v2") on a chunk's text
EmbedText(content) ==
    (3 * content.tweet_id + content.start_index + content.len) % Len(CosTable)

Queries == {"vaccines", "trials"}

\* the same embedding model on a query
EmbedQuery(q) == IF q = "vaccines" THEN 0 ELSE 3

\* the dataframes ingestion runs on, normalized by process_and_unify
Dataframe ==
    [A |-> << Doc(1, <<480, 480, 480>>, "Yes"), Doc(2, <<600>>, "No"),
              Doc(3, <<480, 20, 40>>, "None") >>,
     B |-> << Doc(4, <<40, 20>>, "Yes"), Doc(5, <<>>, "No") >>]

Datasets == DOMAIN Dataframe

\* the index entry Chroma.from_documents stores for a chunk
EntryOf(c) ==
    LET content == [tweet_id |-> c.tweet_id, start_index |-> c.start_index,
                    len |-> c.len]
    IN  [page_content |-> content,
         metadata |-> [tweet_id |-> c.tweet_id, class_label |-> c.class_label,
                       start_index |-> c.start_index],
         embedding |-> EmbedText(content)]

\* lines 110-123 of build_vector_index for each dataframe: its chunks, with
\* their embeddings
EntriesOf ==
    [d \in Datasets |->
        LET chunks == split_documents(Dataframe[d])
        IN  [i \in 1..Len(chunks) |-> EntryOf(chunks[i])]]

\* an ingestion that starts from an empty collection each time
from_documents_replacing(ix, d) == EntriesOf[d]

\* Chroma.from_documents(documents=chunks, ..., persist_directory=db_path):
\* the collection of the directory is opened, created when absent, and the
\* chunks are added to it under fresh ids
from_documents(ix, d) == ix \o EntriesOf[d]

\* the entry nearest to the query embedding among those not taken, the one
\* inserted first on a tie: a scan of the index from position p on, best
\* being the nearest so far (0: none yet)
RECURSIVE ScanNearest(_, _, _, _, _)
ScanNearest(ix, qe, taken, p, best) ==
    IF p > Len(ix) THEN best
    ELSE IF p \in taken THEN ScanNearest(ix, qe, taken, p + 1, best)
    ELSE IF best = 0
            \/ Similarity(ix[p].embedding, qe) > Similarity(ix[best].embedding, qe)
    THEN ScanNearest(ix, qe, taken, p + 1, p)
    ELSE ScanNearest(ix, qe, taken, p + 1, best)

\* the n nearest entries not taken, nearest first
RECURSIVE NearestN(_, _, _, _)
NearestN(ix, qe, taken, n) ==
    LET p == ScanNearest(ix, qe, taken, 1, 0)
    IN  IF n <= 0 \/ p = 0 THEN <<>>
        ELSE <<p>> \o NearestN(ix, qe, taken \cup {p}, n - 1)

\* collection.query(query_embeddings, n_results=n): the n entries nearest to
\* the query embedding, nearest first; the whole index when it holds fewer
QueryCollection(ix, qe, n) == NearestN(ix, qe, {}, n)

Min(a, b) == IF a <= b THEN a ELSE b

\* max(similarity_to_selected[i]): the greatest similarity of candidate i of
\* the pool to the entries selected so far, idxs[j..]
RECURSIVE RedundantScore(_, _, _, _, _)
RedundantScore(ix, pool, idxs, i, j) ==
    LET here == Similarity(ix[pool[i]].embedding, ix[pool[idxs[j]]].embedding)
        rest == RedundantScore(ix, pool, idxs, i, j + 1)
    IN  IF j = Len(idxs) THEN here
        ELSE IF here >= rest THEN here ELSE rest

\* equation_score of candidate i of the pool, times lambda_den:
\* lambda_mult * query_score - (1 - lambda_mult) * redundant_score
EquationScore(ix, qe, pool, idxs, i) ==
    lambda_num * Similarity(ix[pool[i]].embedding, qe)
    - (lambda_den - lambda_num) * RedundantScore(ix, pool, idxs, i, 1)

\* i in idxs
Selected(idxs, i) == \E j \in 1..Len(idxs) : idxs[j] = i

\* the for loop over the candidates from i on: best holds idx_to_add and
\* best_score so far (idx 0: none yet, best_score = -inf); a candidate
\* replaces the best only on a strictly greater score
RECURSIVE ScanCandidates(_, _, _, _, _, _)
ScanCandidates(ix, qe, pool, idxs, i, best) ==
    IF i > Len(pool) THEN best.idx
    ELSE IF Selected(idxs, i)
    THEN ScanCandidates(ix, qe, pool, idxs, i + 1, best)
    ELSE LET score == EquationScore(ix, qe, pool, idxs, i)
         IN  IF best.idx = 0 \/ score > best.score
             THEN ScanCandidates(ix, qe, pool, idxs, i + 1,
                                 [idx |-> i, score |-> score])
             ELSE ScanCandidates(ix, qe, pool, idxs, i + 1, best)

\* the while loop of maximal_marginal_relevance
RECURSIVE MmrLoop(_, _, _, _, _)
MmrLoop(ix, qe, pool, idxs, k) ==
    IF Len(idxs) >= Min(k, Len(pool)) THEN idxs
    ELSE MmrLoop(ix, qe, pool,
                 Append(idxs, ScanCandidates(ix, qe, pool, idxs, 1,
                                             [idx |-> 0, score |-> 0])),
                 k)

\* maximal_marginal_relevance(query_embedding, embedding_list, lambda_mult, k):
\* positions in the pool, in the order selected; the pool is ordered nearest
\* first, so np.argmax picks its first entry
maximal_marginal_relevance(ix, qe, pool, k) ==
    IF Min(k, Len(pool)) <= 0 THEN <<>>
    ELSE MmrLoop(ix, qe, pool, <<1>>, k)

\* vector_db.max_marginal_relevance_search(query, k=k, fetch_k=fk, lambda_mult=0.5)
max_marginal_relevance_search(ix, q, k, fk) ==
    LET pool == QueryCollection(ix, EmbedQuery(q), fk)
        idxs == maximal_marginal_relevance(ix, EmbedQuery(q), pool, k)
    IN  [k |-> k, use_mmr |-> TRUE, raised |-> "none", queried |-> TRUE,
         result |-> [j \in 1..Len(idxs) |-> pool[idxs[j]]]]

\* vector_db.similarity_search(query, k=k): the collection refuses
\* n_results <= 0 with a ValueError before it looks anything up
similarity_search(ix, q, k) ==
    IF k <= 0
    THEN [k |-> k, use_mmr |-> FALSE, raised |-> "ValueError", queried |-> FALSE,
          result |-> <<>>]
    ELSE [k |-> k, use_mmr |-> FALSE, raised |-> "none", queried |-> TRUE,
          result |-> QueryCollection(ix, EmbedQuery(q), k)]

\* ClaimRetriever.search(query, k, use_mmr)
search(ix, q, k, use_mmr) ==
    IF use_mmr THEN max_marginal_relevance_search(ix, q, k, fetch_k)
    ELSE similarity_search(ix, q, k)

\* a search that found the embedding model or the index directory unusable
SearchFailure(k) ==
    [k |-> k, use_mmr |-> TRUE, raised |-> "chroma: db/chroma_db unavailable",
     queried |-> FALSE, result |-> <<>>]

\* the Documents a search returned
DocsOf(ix, result) ==
    [j \in 1..Len(result) |->
        [page_content |-> ix[result[j]].page_content,
         metadata |-> ix[result[j]].metadata]]

\* the sources numbered from 0, as enumerate counts them
format_context_from_zero(docs) ==
    [i \in 1..Len(docs) |->
        [source |-> i - 1, text |-> docs[i].page_content,
         label |-> docs[i].metadata.class_label]]

\* the list comprehension of generate_answer (lines 37-42): one numbered
\* source for each document, in the order of the list
format_context(docs) ==
    [i \in 1..Len(docs) |->
        [source |-> i, text |-> docs[i].page_content,
         label |-> docs[i].metadata.class_label]]

\* the evidence list of handle_question (lines 58-61)
evidence(docs) ==
    [i \in 1..Len(docs) |->
        [text |-> docs[i].page_content, metadata |-> docs[i].metadata]]

\* detail of the HTTPException of handle_question
GenericDetail ==
    "The RAG engine encountered an unexpected error while processing your request.."

\* an except branch that reports the exception itself
error_response_leaking(e) ==
    [status |-> 500, answer |-> "", sources |-> <<>>, detail |-> e]

\* the except branch of handle_question (lines 65-70) for the exception e
error_response(e) ==
    [status |-> 500, answer |-> "", sources |-> <<>>, detail |-> GenericDetail]

\* values of k a caller of search passes: below zero, zero, a few, and one
\* more than fetch_k
Ks == {-1, 0, default_count, fetch_k + 1}

\* values of the count field of a request: zero and the default
Counts == {0, default_count}

InitService ==
    /\ index = <<>>
    /\ ingested = <<>>
    /\ op = "none"
    /\ searchOut = NoSearch
    /\ genOut = NoGeneration
    /\ errorLog = "none"
    /\ response = NoResponse
    /\ IdleNormalize
    /\ IdleLoad
    /\ IdleChunk

\* ClaimIngestor.build_vector_index(Dataframe[d]) on the index directory
build_vector_index(d) ==
    /\ Len(ingested) < MaxRuns
    /\ index' = from_documents(index, d)
    /\ ingested' = Append(ingested, d)
    /\ op' = "build_vector_index"
    /\ searchOut' = NoSearch
    /\ genOut' = NoGeneration
    /\ errorLog' = "none"
    /\ response' = NoResponse
    /\ UNCHANGED <<nvars, lvars, cvars>>

\* a search that removes from the collection the entries it returns
SearchCallConsuming(q, k, use_mmr) ==
    /\ searchOut' = search(index, q, k, use_mmr)
    /\ op' = "search"
    /\ genOut' = NoGeneration
    /\ errorLog' = "none"
    /\ response' = NoResponse
    /\ index' = SelectSeq(index,
                   LAMBDA e : \A j \in 1..Len(searchOut'.result) :
                                 index[searchOut'.result[j]] # e)
    /\ UNCHANGED ingested
    /\ UNCHANGED <<nvars, lvars, cvars>>

\* a direct call of ClaimRetriever.search(query, k, use_mmr)
SearchCall(q, k, use_mmr) ==
    /\ searchOut' = search(index, q, k, use_mmr)
    /\ op' = "search"
    /\ genOut' = NoGeneration
    /\ errorLog' = "none"
    /\ response' = NoResponse
    /\ UNCHANGED <<index, ingested>>
    /\ UNCHANGED <<nvars, lvars, cvars>>

\* what the environment does to a request: nothing, the embedding model or
\* the index raises in the retrieval step, the LLM call raises
Faults == {"none", "retrieval", "generation"}

\* POST /ask: handle_question(request) with request.query = q and
\* request.count = count, under the fault of the environment
handle_question(q, count, fault) ==
    LET found == IF fault = "retrieval" THEN SearchFailure(count)
                 ELSE search(index, q, count, TRUE)
        relevant_docs == DocsOf(index, found.result)
        generated ==
            [called |-> TRUE, context |-> format_context(relevant_docs),
             raised |-> IF fault = "generation" THEN "groq: request failed"
                        ELSE "none"]
    IN  /\ op' = "ask"
        /\ searchOut' = found
        /\ IF found.raised # "none"
           THEN /\ genOut' = NoGeneration
                /\ errorLog' = found.raised
                /\ response' = error_response(found.raised)
           ELSE IF generated.raised # "none"
           THEN /\ genOut' = generated
                /\ errorLog' = generated.raised
                /\ response' = error_response(generated.raised)
           ELSE /\ genOut' = generated
                /\ errorLog' = "none"
                /\ response' = [status |-> 200, answer |-> "answer",
                                sources |-> evidence(relevant_docs),
                                detail |-> ""]
        /\ UNCHANGED <<index, ingested>>
        /\ UNCHANGED <<nvars, lvars, cvars>>

\* GET /status: check_status()
check_status ==
    /\ op' = "status"
    /\ response' = [status |-> 200, answer |-> "online", sources |-> <<>>,
                    detail |-> ""]
    /\ searchOut' = NoSearch
    /\ genOut' = NoGeneration
    /\ errorLog' = "none"
    /\ UNCHANGED <<index, ingested>>
    /\ UNCHANGED <<nvars, lvars, cvars>>

Next ==
    \/ \E d \in Datasets : build_vector_index(d)
    \/ \E q \in Queries, k \in Ks, use_mmr \in BOOLEAN : SearchCall(q, k, use_mmr)
    \/ \E q \in Queries, count \in Counts, fault \in Faults :
          handle_question(q, count, fault)
    \/ check_status

Spec == InitService /\ [][Next]_vars

\* the last operation ran ClaimRetriever.search itself (the environment did
\* not fail it)
Searched ==
    /\ op \in {"search", "ask"}
    /\ searchOut.raised # SearchFailure(searchOut.k).raised

\* C3: a search with k <= 0, direct or through /ask, in either mode, is
\* rejected as an invalid argument before any index query is issued, and no
\* result list (and no answer) comes back.
C3_RejectsNonPositiveK ==
    (Searched /\ searchOut.k <= 0) =>
        /\ searchOut.raised = "ValueError"
        /\ ~searchOut.queried
        /\ searchOut.result = <<>>
        /\ op = "ask" => response.status # 200

Distinct(seq) == \A i, j \in 1..Len(seq) : seq[i] = seq[j] => i = j

\* C4: in diversity mode a search with k >= 1 over an index of N entries
\* returns exactly min(k, N) distinct entries, also when k exceeds the default
\* fetch_k of 20.
C4_MmrReturnsMinKN ==
    (Searched /\ searchOut.use_mmr /\ searchOut.k >= 1 /\ searchOut.raised = "none") =>
        /\ Len(searchOut.result) = Min(searchOut.k, Len(index))
        /\ Distinct(searchOut.result)

\* the entries of the runs, one run after the other
RECURSIVE EntriesOfRuns(_)
EntriesOfRuns(runs) ==
    IF runs = <<>> THEN <<>>
    ELSE EntriesOf[Head(runs)] \o EntriesOfRuns(Tail(runs))

RECURSIVE ChunkCount(_)
ChunkCount(runs) ==
    IF runs = <<>> THEN 0 ELSE Len(EntriesOf[Head(runs)]) + ChunkCount(Tail(runs))

Occurrences(seq, e) == Cardinality({ i \in 1..Len(seq) : seq[i] = e })

\* C6: ingestion appends and never replaces or removes: the index is the
\* entries of all runs in order, its size is the sum of the runs' chunk
\* counts, and a chunk of a dataframe ingested n times is stored n times.
C6_AppendOnly ==
    /\ index = EntriesOfRuns(ingested)
    /\ Len(index) = ChunkCount(ingested)
    /\ \A d \in Datasets : \A i \in 1..Len(EntriesOf[d]) :
          Occurrences(index, EntriesOf[d][i]) = Occurrences(ingested, d)

\* the same dataframe, one that yields chunks, was ingested twice
C6_Witness ==
    \E i, j \in 1..Len(ingested) :
        /\ i < j
        /\ ingested[i] = ingested[j]
        /\ Len(EntriesOf[ingested[i]]) > 0
        /\ Len(index) >= 2 * Len(EntriesOf[ingested[i]])

\* C7: for every /ask request a failure of the retrieval step or of the
\* generation step becomes a 500 response whose detail is the one generic
\* message, not the exception; an answer with sources is sent only when both
\* steps succeeded.
C7_GenericError ==
    op = "ask" =>
        /\ (searchOut.raised # "none" \/ genOut.raised # "none") =>
              /\ response.status = 500
              /\ response.detail = GenericDetail
              /\ response.detail \notin {searchOut.raised, genOut.raised}
              /\ response.sources = <<>>
              /\ errorLog \in {searchOut.raised, genOut.raised} \ {"none"}
        /\ response.status = 200 =>
              /\ searchOut.raised = "none"
              /\ genOut.called
              /\ genOut.raised = "none"

\* a request whose retrieval found entries and whose generation step raised
C7_Witness ==
    /\ op = "ask"
    /\ searchOut.raised = "none"
    /\ Len(searchOut.result) > 0
    /\ genOut.raised # "none"
    /\ response.status = 500

\* C8: generate_answer numbers the sources 1..n in the order of the retrieved
\* list, each with that entry's text and class label, and the sources /ask
\* returns have the same length and order, so citation i is the i-th source.
C8_NumberedSources ==
    (op = "ask" /\ genOut.called) =>
        /\ Len(genOut.context) = Len(searchOut.result)
        /\ \A i \in 1..Len(genOut.context) :
              /\ genOut.context[i].source = i
              /\ genOut.context[i].text = index[searchOut.result[i]].page_content
              /\ genOut.context[i].label =
                    index[searchOut.result[i]].metadata.class_label
        /\ response.status = 200 =>
              /\ Len(response.sources) = Len(genOut.context)
              /\ \A i \in 1..Len(response.sources) :
                    /\ response.sources[i].text = genOut.context[i].text
                    /\ response.sources[i].metadata =
                          index[searchOut.result[i]].metadata

\* an answered request with several sources of different labels
C8_Witness ==
    /\ op = "ask"
    /\ response.status = 200
    /\ Len(response.sources) >= 2
    /\ \E i, j \in 1..Len(genOut.context) :
          genOut.context[i].label # genOut.context[j].label

\* C10: index entries are immutable after ingestion: a step of search, /ask
\* or /status leaves the entries, their text, metadata and embeddings as they
\* were; only build_vector_index changes the index.
C10_QueriesLeaveIndex ==
    [][ /\ op' \in {"search", "ask", "status"} => index' = index
        /\ index' # index => op' = "build_vector_index" ]_vars

\* a query ran against a populated index
C10_Witness ==
    /\ op \in {"search", "ask"}
    /\ searchOut.queried
    /\ Len(searchOut.result) > 0
    /\ Len(index) > Len(searchOut.result)

=============================================================================
